---------------------------- MODULE Spec2Model ----------------------------
(***************************************************************************)
(* Model of ask_sdk_core/response_helper.py: the ResponseFactory builder   *)
(* and the display text-content helpers.                                   *)
(*                                                                         *)
(* Python values are encoded as follows.  An optional value is a sequence  *)
(* of length 0 (None) or 1 (the value); a str that the code inspects       *)
(* character by character is a sequence of one-character strings; an       *)
(* object is a record of its attributes.                                   *)
(***************************************************************************)
EXTENDS Integers, Sequences, FiniteSets, TLC

VARIABLES
    response,   \* ResponseFactory.response, the owned Response object
    before,     \* observer: the Response as it was before the last call
    call,       \* observer: the last call made, [op, arg]
    added,      \* observer: the arguments handed to add_directive so far
    speech,     \* the text under test handed to speak / ask
    stored,     \* observer: markup read back after speak(t), speak(<speak>t</speak>)
    textArgs,   \* the arguments under test of the text-content helpers
    result      \* observer: outcome of the last text-content helper call

vars == <<response, before, call, added, speech, stored, textArgs, result>>

---------------------------------------------------------------------------
(* Bounds *)

MaxDirectives == 3

MaxPieces == 5

---------------------------------------------------------------------------
(* Python values *)

None == <<>>

Some(x) == <<x>>

PLAIN_TEXT_TYPE == "PlainText"

RICH_TEXT_TYPE == "RichText"

VIDEO_APP_LAUNCH == "VideoApp.Launch"

OpenTag == <<"<", "s", "p", "e", "a", "k", ">">>

CloseTag == <<"<", "/", "s", "p", "e", "a", "k", ">">>

\* the characters str.strip() removes (a sample of Python's whitespace)
Whitespace == {" ", "\t"}

Min(a, b) == IF a < b THEN a ELSE b

Max(a, b) == IF a > b THEN a ELSE b

\* str.startswith(prefix)
startswith(s, prefix) ==
    /\ Len(s) >= Len(prefix)
    /\ SubSeq(s, 1, Len(prefix)) = prefix

\* str.endswith(suffix)
endswith(s, suffix) ==
    /\ Len(s) >= Len(suffix)
    /\ SubSeq(s, Len(s) - Len(suffix) + 1, Len(s)) = suffix

\* one slice bound of s[start:stop], clamped the way Python clamps it
SliceIndex(s, i) ==
    IF i < 0 THEN Max(Len(s) + i, 0) ELSE Min(i, Len(s))

\* s[start:stop]
PySlice(s, start, stop) ==
    LET lo == SliceIndex(s, start)
        hi == SliceIndex(s, stop)
    IN  IF hi <= lo THEN <<>> ELSE SubSeq(s, lo + 1, hi)

RECURSIVE lstrip(_)
lstrip(s) ==
    IF s # <<>> /\ Head(s) \in Whitespace THEN lstrip(Tail(s)) ELSE s

RECURSIVE rstrip(_)
rstrip(s) ==
    IF s # <<>> /\ s[Len(s)] \in Whitespace
    THEN rstrip(SubSeq(s, 1, Len(s) - 1))
    ELSE s

\* str.strip()
strip(s) == rstrip(lstrip(s))

\* "<speak>{}</speak>".format(body)
SpeakFormat(body) == OpenTag \o body \o CloseTag

---------------------------------------------------------------------------
(* ResponseFactory *)

\* ResponseFactory.__init__: every field of the Response is None
NewResponse ==
    [output_speech |-> None, card |-> None, reprompt |-> None,
     directives |-> None, should_end_session |-> None]

SsmlOutputSpeech(ssml) == [ssml |-> ssml]

Reprompt(output_speech) == [output_speech |-> output_speech]

\* directive is not None and directive.object_type == "VideoApp.Launch"
IsVideoAppLaunch(directive) ==
    /\ directive # None
    /\ directive[1].object_type = VIDEO_APP_LAUNCH

\* ResponseFactory.__trim_outputspeech
TrimKeepInnerSpace(speech_output) ==
    IF speech_output = None
    THEN <<>>
    ELSE LET s == strip(speech_output[1])
         IN  IF startswith(s, OpenTag) /\ endswith(s, CloseTag)
             THEN PySlice(s, 7, -8)
             ELSE s

TrimRecursive(speech_output) ==
    IF speech_output = None
    THEN <<>>
    ELSE LET s  == strip(speech_output[1])
             s1 == IF startswith(s, OpenTag) /\ endswith(s, CloseTag)
                   THEN strip(PySlice(s, 7, -8)) ELSE s
         IN  IF startswith(s1, OpenTag) /\ endswith(s1, CloseTag)
             THEN strip(PySlice(s1, 7, -8))
             ELSE s1

trim_outputspeech(speech_output) ==
    IF speech_output = None
    THEN <<>>
    ELSE LET s == strip(speech_output[1])
         IN  IF startswith(s, OpenTag) /\ endswith(s, CloseTag)
             THEN strip(PySlice(s, 7, -8))
             ELSE s

\* ResponseFactory.__is_video_app_launch_directive_present
is_video_app_launch_directive_present(r) ==
    IF r.directives = None
    THEN FALSE
    ELSE \E i \in 1..Len(r.directives[1]) :
            IsVideoAppLaunch(r.directives[1][i])

\* ResponseFactory.speak
speak(r, text) ==
    [r EXCEPT !.output_speech =
        Some(SsmlOutputSpeech(SpeakFormat(trim_outputspeech(text))))]

\* ResponseFactory.ask
AskAlwaysFalse(r, text) ==
    [r EXCEPT !.reprompt =
                Some(Reprompt(SsmlOutputSpeech(
                        SpeakFormat(trim_outputspeech(text))))),
              !.should_end_session = Some(FALSE)]

ask(r, text) ==
    LET r1 == [r EXCEPT !.reprompt =
                Some(Reprompt(SsmlOutputSpeech(
                        SpeakFormat(trim_outputspeech(text)))))]
    IN  IF ~ is_video_app_launch_directive_present(r1)
        THEN [r1 EXCEPT !.should_end_session = Some(FALSE)]
        ELSE r1

\* ResponseFactory.set_card
set_card(r, card) == [r EXCEPT !.card = card]

\* ResponseFactory.add_directive
AddDirectiveNoReset(r, directive) ==
    LET ds == IF r.directives = None THEN <<>> ELSE r.directives[1]
    IN  [r EXCEPT !.directives = Some(Append(ds, directive))]

AddDirectiveFreshList(r, directive) ==
    LET r2 == IF IsVideoAppLaunch(directive)
              THEN [r EXCEPT !.should_end_session = None]
              ELSE r
    IN  [r2 EXCEPT !.directives = Some(<<directive>>)]

AddDirectiveResetAlways(r, directive) ==
    LET ds == IF r.directives = None THEN <<>> ELSE r.directives[1]
        r2 == IF directive # None
              THEN [r EXCEPT !.should_end_session = None]
              ELSE r
    IN  [r2 EXCEPT !.directives = Some(Append(ds, directive))]

add_directive(r, directive) ==
    LET r1 == IF r.directives = None
              THEN [r EXCEPT !.directives = Some(<<>>)]
              ELSE r
        r2 == IF IsVideoAppLaunch(directive)
              THEN [r1 EXCEPT !.should_end_session = None]
              ELSE r1
    IN  [r2 EXCEPT !.directives = Some(Append(r2.directives[1], directive))]

\* ResponseFactory.set_should_end_session
SetShouldEndSessionUnguarded(r, should_end_session) ==
    [r EXCEPT !.should_end_session = should_end_session]

set_should_end_session(r, should_end_session) ==
    IF ~ is_video_app_launch_directive_present(r)
    THEN [r EXCEPT !.should_end_session = should_end_session]
    ELSE r

---------------------------------------------------------------------------
(* Text content helpers *)

\* `if text:` -- a str is truthy when it is present and non-empty
Truthy(text) == text # None /\ text # Some("")

Returned(v) == [raised |-> None, value |-> Some(v)]

Raised(e) == [raised |-> Some(e), value |-> None]

\* ValueError("Invalid type provided: {}".format(text_type))
ValueError(text_type) ==
    [type |-> "ValueError", message |-> <<"Invalid type provided: ", text_type>>]

PlainText(text) == [object_type |-> "PlainText", text |-> text]

RichText(text) == [object_type |-> "RichText", text |-> text]

\* TextContent(): all three fields None
TextContent ==
    [primary_text |-> None, secondary_text |-> None, tertiary_text |-> None]

\* __set_text_field
SetTextFieldNoValidation(text, text_type) ==
    IF Truthy(text)
    THEN IF text_type = PLAIN_TEXT_TYPE
         THEN Returned(Some(PlainText(text[1])))
         ELSE Returned(Some(RichText(text[1])))
    ELSE Returned(None)

SetTextFieldAlwaysPlain(text, text_type) ==
    IF Truthy(text)
    THEN IF text_type \notin {PLAIN_TEXT_TYPE, RICH_TEXT_TYPE}
         THEN Raised(ValueError(text_type))
         ELSE Returned(Some(PlainText(text[1])))
    ELSE Returned(None)

set_text_field(text, text_type) ==
    IF Truthy(text)
    THEN IF text_type \notin {PLAIN_TEXT_TYPE, RICH_TEXT_TYPE}
         THEN Raised(ValueError(text_type))
         ELSE IF text_type = PLAIN_TEXT_TYPE
              THEN Returned(Some(PlainText(text[1])))
              ELSE Returned(Some(RichText(text[1])))
    ELSE Returned(None)

\* get_text_content: the three fields are filled in order; a raise in one
\* abandons the call
get_text_content(primary_text, primary_text_type, secondary_text, secondary_text_type, tertiary_text, tertiary_text_type) ==
    LET f1 == set_text_field(primary_text, primary_text_type)
        f2 == set_text_field(secondary_text, secondary_text_type)
        f3 == set_text_field(tertiary_text, tertiary_text_type)
        c0 == TextContent
        c1 == IF Truthy(primary_text)
              THEN [c0 EXCEPT !.primary_text = f1.value[1]] ELSE c0
        c2 == IF Truthy(secondary_text)
              THEN [c1 EXCEPT !.secondary_text = f2.value[1]] ELSE c1
        c3 == IF Truthy(tertiary_text)
              THEN [c2 EXCEPT !.tertiary_text = f3.value[1]] ELSE c2
    IN  IF Truthy(primary_text) /\ f1.raised # None THEN Raised(f1.raised[1])
        ELSE IF Truthy(secondary_text) /\ f2.raised # None
             THEN Raised(f2.raised[1])
        ELSE IF Truthy(tertiary_text) /\ f3.raised # None
             THEN Raised(f3.raised[1])
        ELSE Returned(c3)

\* get_plain_text_content
get_plain_text_content(primary_text, secondary_text, tertiary_text) ==
    get_text_content(primary_text, PLAIN_TEXT_TYPE,
                     secondary_text, PLAIN_TEXT_TYPE,
                     tertiary_text, PLAIN_TEXT_TYPE)

\* get_rich_text_content
GetRichTaggedPlain(primary_text, secondary_text, tertiary_text) ==
    get_text_content(primary_text, PLAIN_TEXT_TYPE,
                     secondary_text, PLAIN_TEXT_TYPE,
                     tertiary_text, PLAIN_TEXT_TYPE)

get_rich_text_content(primary_text, secondary_text, tertiary_text) ==
    get_text_content(primary_text, RICH_TEXT_TYPE,
                     secondary_text, RICH_TEXT_TYPE,
                     tertiary_text, RICH_TEXT_TYPE)

---------------------------------------------------------------------------
(* Inputs *)

\* str arguments handed to speak / ask by a skill
FactoryTexts ==
    {None, Some(<<>>), Some(<<" ", "a", " ">>), Some(SpeakFormat(<<"a">>))}

\* Card arguments handed to set_card
Cards ==
    {None, Some([object_type |-> "Simple"]), Some([object_type |-> "LinkAccount"])}

\* Directive arguments handed to add_directive
Directives ==
    {None, Some([object_type |-> VIDEO_APP_LAUNCH]),
     Some([object_type |-> "Hint"]),
     Some([object_type |-> "Display.RenderTemplate"])}

\* arguments handed to set_should_end_session
EndSessionValues == {None, Some(TRUE), Some(FALSE)}

\* the building blocks of the texts under test
Pieces == {<<" ">>, <<"\t">>, <<"a">>, OpenTag, CloseTag}

RECURSIVE Flatten(_)
Flatten(ps) == IF ps = <<>> THEN <<>> ELSE Head(ps) \o Flatten(Tail(ps))

\* every text made of at most MaxPieces pieces, and the absent text
SpeechTexts ==
    {None} \cup
    {Some(Flatten(ps)) : ps \in UNION {[1..n -> Pieces] : n \in 0..MaxPieces}}

\* text arguments of the text-content helpers
FieldTexts == {None, Some(""), Some("x"), Some("y")}

\* type tags handed to get_text_content
TypeTags == {PLAIN_TEXT_TYPE, RICH_TEXT_TYPE, "bogus", "plaintext"}

TextArgSets ==
    [primary_text : FieldTexts, primary_text_type : TypeTags,
     secondary_text : FieldTexts, secondary_text_type : TypeTags,
     tertiary_text : FieldTexts, tertiary_text_type : TypeTags]

\* the defaults of get_text_content's parameters
DefaultTextArgs ==
    [primary_text |-> None, primary_text_type |-> PLAIN_TEXT_TYPE,
     secondary_text |-> None, secondary_text_type |-> PLAIN_TEXT_TYPE,
     tertiary_text |-> None, tertiary_text_type |-> PLAIN_TEXT_TYPE]

NoCall == [op |-> "init", arg |-> None]

NoStored == [plain |-> None, wrapped |-> None]

NoResult == [helper |-> "none", outcome |-> [raised |-> None, value |-> None]]

---------------------------------------------------------------------------
(* The builder driven by a skill: any calls, in any order *)

Init ==
    /\ response = NewResponse
    /\ before = NewResponse
    /\ call = NoCall
    /\ added = <<>>
    /\ speech = None
    /\ stored = NoStored
    /\ textArgs = DefaultTextArgs
    /\ result = NoResult

Speak ==
    \E t \in FactoryTexts :
        /\ response' = speak(response, t)
        /\ before' = response
        /\ call' = [op |-> "speak", arg |-> t]
        /\ UNCHANGED <<added, speech, stored, textArgs, result>>

Ask ==
    \E t \in FactoryTexts :
        /\ response' = ask(response, t)
        /\ before' = response
        /\ call' = [op |-> "ask", arg |-> t]
        /\ UNCHANGED <<added, speech, stored, textArgs, result>>

SetCard ==
    \E c \in Cards :
        /\ response' = set_card(response, c)
        /\ before' = response
        /\ call' = [op |-> "set_card", arg |-> c]
        /\ UNCHANGED <<added, speech, stored, textArgs, result>>

AddDirective ==
    \E d \in Directives :
        /\ Len(added) < MaxDirectives
        /\ response' = add_directive(response, d)
        /\ before' = response
        /\ call' = [op |-> "add_directive", arg |-> d]
        /\ added' = Append(added, d)
        /\ UNCHANGED <<speech, stored, textArgs, result>>

SetShouldEndSession ==
    \E v \in EndSessionValues :
        /\ response' = set_should_end_session(response, v)
        /\ before' = response
        /\ call' = [op |-> "set_should_end_session", arg |-> v]
        /\ UNCHANGED <<added, speech, stored, textArgs, result>>

Next == Speak \/ Ask \/ SetCard \/ AddDirective \/ SetShouldEndSession

Spec == Init /\ [][Next]_vars

---------------------------------------------------------------------------
(* speak / ask applied to one text drawn from SpeechTexts *)

InitSpeech ==
    /\ response = NewResponse
    /\ before = NewResponse
    /\ call = NoCall
    /\ added = <<>>
    /\ speech \in SpeechTexts
    /\ stored = NoStored
    /\ textArgs = DefaultTextArgs
    /\ result = NoResult

\* speak(t)
SpeakText ==
    /\ response' = speak(response, speech)
    /\ before' = response
    /\ call' = [op |-> "speak", arg |-> speech]
    /\ stored' = [stored EXCEPT !.plain = response'.output_speech]
    /\ UNCHANGED <<added, speech, textArgs, result>>

\* speak("<speak>" + t + "</speak>"), for a str t
SpeakWrappedText ==
    /\ speech # None
    /\ response' = speak(response, Some(OpenTag \o speech[1] \o CloseTag))
    /\ before' = response
    /\ call' = [op |-> "speak", arg |-> Some(OpenTag \o speech[1] \o CloseTag)]
    /\ stored' = [stored EXCEPT !.wrapped = response'.output_speech]
    /\ UNCHANGED <<added, speech, textArgs, result>>

\* ask(t)
AskText ==
    /\ response' = ask(response, speech)
    /\ before' = response
    /\ call' = [op |-> "ask", arg |-> speech]
    /\ UNCHANGED <<added, speech, stored, textArgs, result>>

NextSpeech == SpeakText \/ SpeakWrappedText \/ AskText

SpecSpeech == InitSpeech /\ [][NextSpeech]_vars

---------------------------------------------------------------------------
(* the text-content helpers applied to arguments drawn from TextArgSets *)

InitText ==
    /\ response = NewResponse
    /\ before = NewResponse
    /\ call = NoCall
    /\ added = <<>>
    /\ speech = None
    /\ stored = NoStored
    /\ textArgs \in TextArgSets
    /\ result = NoResult

CallGetTextContent ==
    /\ result' = [helper |-> "get_text_content",
                  outcome |-> get_text_content(
                      textArgs.primary_text, textArgs.primary_text_type,
                      textArgs.secondary_text, textArgs.secondary_text_type,
                      textArgs.tertiary_text, textArgs.tertiary_text_type)]
    /\ UNCHANGED <<response, before, call, added, speech, stored, textArgs>>

CallGetPlainTextContent ==
    /\ result' = [helper |-> "get_plain_text_content",
                  outcome |-> get_plain_text_content(
                      textArgs.primary_text, textArgs.secondary_text,
                      textArgs.tertiary_text)]
    /\ UNCHANGED <<response, before, call, added, speech, stored, textArgs>>

CallGetRichTextContent ==
    /\ result' = [helper |-> "get_rich_text_content",
                  outcome |-> get_rich_text_content(
                      textArgs.primary_text, textArgs.secondary_text,
                      textArgs.tertiary_text)]
    /\ UNCHANGED <<response, before, call, added, speech, stored, textArgs>>

NextText ==
    CallGetTextContent \/ CallGetPlainTextContent \/ CallGetRichTextContent

SpecText == InitText /\ [][NextText]_vars

---------------------------------------------------------------------------
(* Properties of the builder (specification Spec) *)

\* a "VideoApp.Launch" directive is among the directives of Response r
HasVideoLaunch(r) ==
    /\ r.directives # None
    /\ \E i \in DOMAIN r.directives[1] :
          r.directives[1][i] = Some([object_type |-> "VideoApp.Launch"])

\* C1: after any sequence of calls on a fresh factory, whenever the
\* directives contain a "VideoApp.Launch" directive, should_end_session is
\* None, never True or False.
C1_NoEndSessionWhileVideoLaunch ==
    HasVideoLaunch(response) => response.should_end_session = None

\* set_should_end_session(True) was just called with a launch directive present
C1_Witness ==
    /\ call.op = "set_should_end_session"
    /\ call.arg = Some(TRUE)
    /\ HasVideoLaunch(response)
    /\ Len(response.directives[1]) >= 2

\* C2: ask(t) sets should_end_session to False when no "VideoApp.Launch"
\* directive is present, whatever it was before, and leaves it as it was
\* when one is present.
C2_AskEndSession ==
    call.op = "ask" =>
        IF HasVideoLaunch(before)
        THEN response.should_end_session = before.should_end_session
        ELSE response.should_end_session = Some(FALSE)

\* ask turned a should_end_session of True into False
C2_Witness ==
    /\ call.op = "ask"
    /\ ~ HasVideoLaunch(before)
    /\ before.should_end_session = Some(TRUE)
    /\ response.should_end_session = Some(FALSE)

\* C3: set_should_end_session(v), for v in {None, True, False}, sets
\* should_end_session to v when no "VideoApp.Launch" directive is present and
\* changes no field of the response when one is present.
C3_SetShouldEndSession ==
    call.op = "set_should_end_session" =>
        IF HasVideoLaunch(before)
        THEN response = before
        ELSE response.should_end_session = call.arg

\* add_directive(launch), ask, set_should_end_session(True): still None
C3_Witness ==
    /\ call.op = "set_should_end_session"
    /\ call.arg = Some(TRUE)
    /\ HasVideoLaunch(before)
    /\ before.reprompt # None
    /\ response.should_end_session = None

\* C4: directives is None while add_directive was never called, and
\* otherwise is exactly the arguments of add_directive in call order,
\* duplicates and None arguments kept; nothing is removed, reordered or
\* replaced.
C4_DirectivesAreTheAppendedArguments ==
    IF added = <<>>
    THEN response.directives = None
    ELSE response.directives = Some(added)

\* directives A, None, A were added, and another call followed
C4_Witness ==
    /\ Len(added) = 3
    /\ added[1] = Some([object_type |-> "Hint"])
    /\ added[2] = None
    /\ added[3] = added[1]
    /\ call.op = "ask"
    /\ response.directives = Some(added)

\* C10: each operation changes only its own fields: speak only
\* output_speech; set_card only card; ask only reprompt and
\* should_end_session; set_should_end_session only should_end_session;
\* add_directive only directives and, solely when the appended directive is
\* "VideoApp.Launch", should_end_session.
C10_Frame ==
    /\ call.op = "speak" =>
          response = [before EXCEPT !.output_speech = response.output_speech]
    /\ call.op = "set_card" =>
          response = [before EXCEPT !.card = response.card]
    /\ call.op = "ask" =>
          response = [before EXCEPT
                        !.reprompt = response.reprompt,
                        !.should_end_session = response.should_end_session]
    /\ call.op = "set_should_end_session" =>
          response = [before EXCEPT
                        !.should_end_session = response.should_end_session]
    /\ call.op = "add_directive" =>
          /\ response = [before EXCEPT
                        !.directives = response.directives,
                        !.should_end_session = response.should_end_session]
          /\ call.arg # Some([object_type |-> "VideoApp.Launch"]) =>
                response.should_end_session = before.should_end_session

\* a non-launch directive was appended to a fully populated response
C10_Witness ==
    /\ call.op = "add_directive"
    /\ call.arg = Some([object_type |-> "Hint"])
    /\ before.should_end_session = Some(TRUE)
    /\ before.output_speech # None
    /\ before.card # None
    /\ before.reprompt # None
    /\ before.directives # None
    /\ response.should_end_session = Some(TRUE)

---------------------------------------------------------------------------
(* Properties of speech wrapping (specification SpecSpeech) *)

\* s without its leading and trailing whitespace: the part of s from its
\* first to its last non-whitespace character
Stripped(s) ==
    LET solid == {i \in 1..Len(s) : s[i] \notin {" ", "\t"}}
    IN  IF solid = {}
        THEN <<>>
        ELSE SubSeq(s, CHOOSE i \in solid : \A j \in solid : i <= j,
                       CHOOSE i \in solid : \A j \in solid : j <= i)

\* s is "<speak>" + inner + "</speak>" for some inner
IsWrapped(s) ==
    \E n \in 0..Len(s) :
        /\ Len(s) = n + 15
        /\ s = <<"<", "s", "p", "e", "a", "k", ">">>
                   \o SubSeq(s, 8, 7 + n)
                   \o <<"<", "/", "s", "p", "e", "a", "k", ">">>

\* the text between the outer tag pair of a wrapped s
Inner(s) == SubSeq(s, 8, Len(s) - 8)

\* trim(t) as the contract states it
Trimmed(t) ==
    IF t = None THEN <<>>
    ELSE IF IsWrapped(Stripped(t[1]))
         THEN Stripped(Inner(Stripped(t[1])))
         ELSE Stripped(t[1])

\* "<speak>" + body + "</speak>"
Markup(body) ==
    <<"<", "s", "p", "e", "a", "k", ">">> \o body
        \o <<"<", "/", "s", "p", "e", "a", "k", ">">>

\* C5: speak(t) stores output_speech markup, and ask(t) reprompt markup,
\* equal to "<speak>" + trim(t) + "</speak>", where trim(absent) = "" and
\* otherwise trim strips surrounding whitespace and removes exactly one outer
\* <speak>..</speak> pair with the whitespace just inside it, nested wrapping
\* kept; speak(None) and speak("") store "<speak></speak>".
C5_StoredMarkup ==
    /\ call.op = "speak" =>
          response.output_speech = Some([ssml |-> Markup(Trimmed(call.arg))])
    /\ call.op = "ask" =>
          response.reprompt =
              Some([output_speech |-> [ssml |-> Markup(Trimmed(call.arg))]])
    /\ call.op = "speak" /\ call.arg \in {None, Some(<<>>)} =>
          response.output_speech = Some([ssml |-> Markup(<<>>)])

\* speak("<speak> <speak></speak></speak>") kept the nested pair and dropped
\* the whitespace just inside the outer one
C5_Witness ==
    /\ call.op = "speak"
    /\ call.arg = Some(Markup(<<" ">> \o Markup(<<>>)))
    /\ response.output_speech = Some([ssml |-> Markup(Markup(<<>>))])

\* C6 as claimed: for every text t, speak("<speak>" + t + "</speak>") and
\* speak(t) store the identical output_speech markup.
C6_WrapIdempotentForEveryText ==
    (stored.plain # None /\ stored.wrapped # None) =>
        stored.plain = stored.wrapped

\* C6 as amended: for every text t that, stripped of surrounding whitespace,
\* is not itself wrapped in <speak>..</speak>, speak("<speak>" + t +
\* "</speak>") and speak(t) store the identical output_speech markup.
C6_WrapIdempotentForUnwrappedText ==
    (/\ stored.plain # None
     /\ stored.wrapped # None
     /\ ~ IsWrapped(Stripped(speech[1]))) =>
        stored.plain = stored.wrapped

\* speak(" a ") and speak("<speak> a </speak>") both stored "<speak>a</speak>"
C6_Witness ==
    /\ speech = Some(<<" ", "a", " ">>)
    /\ stored.plain = Some([ssml |-> Markup(<<"a">>)])
    /\ stored.wrapped = Some([ssml |-> Markup(<<"a">>)])

---------------------------------------------------------------------------
(* Properties of the text-content helpers (specification SpecText) *)

\* the (text, type tag) pairs handed to the helper, by field
FieldArgs ==
    [primary_text |->
        [text |-> textArgs.primary_text, tag |-> textArgs.primary_text_type],
     secondary_text |->
        [text |-> textArgs.secondary_text, tag |-> textArgs.secondary_text_type],
     tertiary_text |->
        [text |-> textArgs.tertiary_text, tag |-> textArgs.tertiary_text_type]]

FieldNames == {"primary_text", "secondary_text", "tertiary_text"}

\* the text of field f is present and non-empty
NonEmpty(f) == FieldArgs[f].text \notin {<<>>, <<"">>}

ValidTag(f) == FieldArgs[f].tag \in {"PlainText", "RichText"}

\* C7: get_text_content raises a ValueError naming the offending tag exactly
\* when some field has a present, non-empty text and a type tag other than
\* "PlainText" or "RichText"; an invalid tag with an absent or empty text
\* raises nothing; when the error is raised no TextContent is returned.
C7_ValueErrorExactlyOnInvalidTag ==
    result.helper = "get_text_content" =>
        LET offending == {f \in FieldNames : NonEmpty(f) /\ ~ ValidTag(f)}
        IN  /\ result.outcome.raised # <<>> <=> offending # {}
            /\ offending = {} => result.outcome.value # <<>>
            /\ offending # {} =>
                  /\ result.outcome.value = <<>>
                  /\ result.outcome.raised[1].type = "ValueError"
                  /\ \E f \in offending :
                        result.outcome.raised[1].message =
                            <<"Invalid type provided: ", FieldArgs[f].tag>>

\* an invalid tag on an empty text was let through, the one on "x" was not
C7_Witness ==
    /\ result.helper = "get_text_content"
    /\ textArgs.primary_text = <<"">>
    /\ textArgs.primary_text_type = "bogus"
    /\ textArgs.secondary_text = <<"x">>
    /\ textArgs.secondary_text_type = "plaintext"
    /\ result.outcome.value = <<>>
    /\ result.outcome.raised[1].message = <<"Invalid type provided: ", "plaintext">>

\* C8: with three valid type tags, get_text_content returns a TextContent
\* in which each field is set iff its text is present and non-empty, and each
\* set field carries that text tagged as its own tag says, independently of
\* the other two fields.
C8_FieldsSetIffTextNonEmpty ==
    (result.helper = "get_text_content" /\ \A f \in FieldNames : ValidTag(f)) =>
        /\ result.outcome.raised = <<>>
        /\ result.outcome.value # <<>>
        /\ \A f \in FieldNames :
              result.outcome.value[1][f] =
                  IF NonEmpty(f)
                  THEN <<[object_type |-> FieldArgs[f].tag,
                          text |-> FieldArgs[f].text[1]]>>
                  ELSE <<>>

\* rich "x", an empty text left unset, plain "y"
C8_Witness ==
    /\ result.helper = "get_text_content"
    /\ textArgs.primary_text = <<"x">>
    /\ textArgs.primary_text_type = "RichText"
    /\ textArgs.secondary_text = <<"">>
    /\ textArgs.secondary_text_type = "RichText"
    /\ textArgs.tertiary_text = <<"y">>
    /\ textArgs.tertiary_text_type = "PlainText"
    /\ result.outcome.value =
          <<[primary_text |-> <<[object_type |-> "RichText", text |-> "x"]>>,
             secondary_text |-> <<>>,
             tertiary_text |-> <<[object_type |-> "PlainText", text |-> "y"]>>]>>

\* the TextContent whose non-empty fields all carry the tag `tag`
AllTagged(tag) ==
    [f \in FieldNames |->
        IF NonEmpty(f)
        THEN <<[object_type |-> tag, text |-> FieldArgs[f].text[1]]>>
        ELSE <<>>]

=============================================================================
